---------------------------- MODULE Spec2Model ----------------------------
(***************************************************************************)
(* Branch Out Science Search (streamlit_app.py): one Streamlit script that *)
(* loads a CSV through a memoised loader, validates four columns, filters  *)
(* the rows by two text inputs and a field selection, and renders counts,  *)
(* a re-ordered table and a CSV download.                                  *)
(*                                                                         *)
(* Text is a sequence of one-character strings over a small alphabet:      *)
(*   "n" "N" "a"   letters (one of them in both cases)                     *)
(*   "0" "7"       digits                                                  *)
(*   " "           whitespace                                              *)
(*   "."           the regular-expression wildcard / the decimal point     *)
(*   "("           an opening group, never closed: an invalid pattern      *)
(* A cell of a DataFrame is [t, s]: t its type ("null", "str", "int",      *)
(* "float") and s the text str() gives for it (<<>> for a null).           *)
(***************************************************************************)
EXTENDS Naturals, Sequences, FiniteSets, TLC

\* ------------------------------------------------------------------ bounds

\* Data rows a file on disk holds at most.
MaxRows == 2

\* --------------------------------------------------------- the environment

\* The pandas that is installed, which the repository does not pin: does
\* Series.astype(str) keep a missing value missing (3.0 on) or turn it into
\* the text "nan" (before 3.0)?  Fixed for the life of the process.
VARIABLE astype_keeps_na

\* ------------------------------------------------------------------- text

Digits == {"0", "7"}

\* str.lower() / re.IGNORECASE folding of one character of the alphabet.
Lower(c) == IF c = "N" THEN "n" ELSE c

IsSpace(c) == c = " "

RECURSIVE LStrip(_)
LStrip(t) == IF t # <<>> /\ IsSpace(Head(t)) THEN LStrip(Tail(t)) ELSE t

RECURSIVE RStrip(_)
RStrip(t) ==
    IF t # <<>> /\ IsSpace(t[Len(t)]) THEN RStrip(SubSeq(t, 1, Len(t) - 1)) ELSE t

\* str.strip(): leading and trailing whitespace removed.
Strip(t) == RStrip(LStrip(t))

\* re.compile(pat): a "(" that is never closed raises re.error.  (The
\* alphabet has no ")", so every "(" is unterminated.)
ReCompiles(pat) == \A i \in 1..Len(pat) : pat[i] # "("

\* One pattern character against one character of the subject, under
\* re.IGNORECASE: "." matches any character, the others match themselves.
ReCharMatch(p, c) == p = "." \/ Lower(p) = Lower(c)

\* pattern.search(s) is not None, for a pattern that compiles.
ReSearch(pat, s) ==
    \E i \in 0..Len(s) :
        /\ i + Len(pat) <= Len(s)
        /\ \A j \in 1..Len(pat) : ReCharMatch(pat[j], s[i + j])

\* Literal, case-insensitive substring containment: what the page's Notes
\* promise.  Used by the claims only, never by the model of the code.
ContainsCI(s, q) ==
    \E i \in 0..Len(s) :
        /\ i + Len(q) <= Len(s)
        /\ \A j \in 1..Len(q) : Lower(q[j]) = Lower(s[i + j])

\* ------------------------------------------------------------------ cells

Null == [t |-> "null", s |-> <<>>]

Str(x) == [t |-> "str", s |-> x]

\* Series.astype(str): every value becomes its str().  What becomes of a
\* missing value (NaN) depends on the pandas that is installed, which the
\* repository does not pin: before 3.0 it becomes the text "nan", from 3.0
\* on it stays missing.
astype_str(cell) ==
    IF cell.t # "null" THEN Str(cell.s)
    ELSE IF astype_keeps_na THEN Null
    ELSE Str(<<"n", "a", "n">>)

\* ------------------------------------------------- pd.read_csv, field level

\* The default na_values of read_csv that the alphabet can spell.
NaStrings == {<<>>, <<"N", "a", "N">>, <<"n", "a", "n">>}

IsNa(f) == f \in NaStrings

AllDigits(t) == \A i \in 1..Len(t) : t[i] \in Digits

\* The C parser's integer conversion skips surrounding whitespace.
IsIntText(f) == Strip(f) # <<>> /\ AllDigits(Strip(f))

DotAt(t) == {i \in 1..Len(t) : t[i] = "."}

\* digits "." digits with at least one digit, surrounding whitespace skipped.
IsFloatText(f) ==
    LET t == Strip(f)
    IN  /\ Cardinality(DotAt(t)) = 1
        /\ Len(t) >= 2
        /\ \A i \in 1..Len(t) : t[i] \in Digits \cup {"."}

RECURSIVE DropLeadingZeros(_)
DropLeadingZeros(t) ==
    IF Len(t) > 1 /\ Head(t) = "0" THEN DropLeadingZeros(Tail(t)) ELSE t

RECURSIVE DropTrailingZeros(_)
DropTrailingZeros(t) ==
    IF Len(t) > 1 /\ t[Len(t)] = "0"
    THEN DropTrailingZeros(SubSeq(t, 1, Len(t) - 1))
    ELSE t

\* str() of the int a field parses to: "07" is 7.
IntRepr(f) == DropLeadingZeros(Strip(f))

\* str() of the float a field parses to: "7" is 7.0, "07.70" is 7.7,
\* ".7" is 0.7 (fields short enough that repr() uses no exponent).
FloatRepr(f) ==
    LET t  == Strip(f)
        d  == IF DotAt(t) = {} THEN Len(t) + 1 ELSE CHOOSE i \in DotAt(t) : TRUE
        ip == SubSeq(t, 1, d - 1)
        fp == SubSeq(t, d + 1, Len(t))
    IN  DropLeadingZeros(IF ip = <<>> THEN <<"0">> ELSE ip)
            \o <<".">>
            \o DropTrailingZeros(IF fp = <<>> THEN <<"0">> ELSE fp)

\* The dtype read_csv infers for a column from its fields: float64 for a
\* column with nothing but missing values, int64 when every field is an
\* integer, float64 when every present field is a number, object otherwise.
InferDtype(fields) ==
    LET present == {i \in 1..Len(fields) : ~IsNa(fields[i])}
    IN  IF present = {} THEN "float"
        ELSE IF \A i \in present : IsIntText(fields[i])
             THEN (IF present = 1..Len(fields) THEN "int" ELSE "float")
        ELSE IF \A i \in present : IsIntText(fields[i]) \/ IsFloatText(fields[i])
             THEN "float"
        ELSE "object"

\* One field converted to a cell of a column of the given dtype.
ParseField(f, dtype) ==
    IF IsNa(f) THEN Null
    ELSE IF dtype = "int" THEN [t |-> "int", s |-> IntRepr(f)]
    ELSE IF dtype = "float" THEN [t |-> "float", s |-> FloatRepr(f)]
    ELSE Str(f)

\* ------------------------------------------------------------ configuration

CSV_PATH == "BONF Research Table MASTER Recipients.csv"

COL_RECIPIENTS == "Recipients"
COL_SUPS == "Supervisors"
COL_PROPOSAL == "Proposal"
COL_LAY == "Lay_Summary"

\* ------------------------------------------------------------- DataFrames

\* pd.DataFrame(): no columns, no rows.
EmptyFrame == [columns |-> <<>>, rows |-> <<>>]

\* DataFrame.empty: any axis of length 0.
IsEmpty(frame) == Len(frame.columns) = 0 \/ Len(frame.rows) = 0

Range(seq) == {seq[i] : i \in 1..Len(seq)}

\* read_csv renames a repeated header name: the k-th repeat of X is "X.k".
DupeSuffix(k) == IF k = 1 THEN ".1" ELSE IF k = 2 THEN ".2" ELSE ".3"

MangleDupes(header) ==
    [i \in 1..Len(header) |->
        LET k == Cardinality({j \in 1..(i - 1) : header[j] = header[i]})
        IN  IF k = 0 THEN header[i] ELSE header[i] \o DupeSuffix(k)]

\* The fields of column i of a file, top to bottom.
ColumnFields(f, i) == [r \in 1..Len(f.rows) |-> f.rows[r][i]]

\* pd.read_csv(path, encoding_errors="ignore") on the file as it is now:
\* the exception it raises, if any, and the DataFrame it returns otherwise.
\* A file of zero bytes has no header line (EmptyDataError).  Rows carry
\* the RangeIndex label read_csv gives them.
read_csv(f) ==
    IF ~f.exists THEN [raised |-> "FileNotFoundError", frame |-> EmptyFrame]
    ELSE IF f.header = <<>> THEN [raised |-> "EmptyDataError", frame |-> EmptyFrame]
    ELSE
        LET cols == MangleDupes(f.header)
            pos(c) == CHOOSE i \in 1..Len(cols) : cols[i] = c
        IN  [raised |-> "none",
             frame |->
                [columns |-> cols,
                 rows |->
                    [r \in 1..Len(f.rows) |->
                        [label |-> r - 1,
                         cells |->
                            [c \in Range(cols) |->
                                ParseField(f.rows[r][pos(c)],
                                           InferDtype(ColumnFields(f, pos(c))))]]]]]

\* load_data(path), the body: the DataFrame returned and the st.error
\* elements it emitted on the way.
load_data(f, path) ==
    LET got == read_csv(f)
    IN  IF got.raised = "none" THEN [frame |-> got.frame, errors |-> <<>>]
        ELSE IF got.raised = "FileNotFoundError"
        THEN [frame |-> EmptyFrame,
              errors |-> <<[kind |-> "File not found", names |-> <<path>>]>>]
        ELSE [frame |-> EmptyFrame,
              errors |-> <<[kind |-> "Could not read CSV", names |-> <<got.raised>>]>>]

\* @st.cache_data: the memo table is keyed on the argument (the path) alone.
\* A hit returns the stored value and replays the stored elements without
\* running the body; a miss runs the body on the file and stores the result.
cached_load_data(memo, f, path) ==
    IF path \in DOMAIN memo
    THEN [ret |-> memo[path], memo |-> memo]
    ELSE [ret |-> load_data(f, path), memo |-> memo @@ (path :> load_data(f, path))]

\* ----------------------------------------------------------- the filters

\* A faulty variant of missing: the membership test inverted, so that the
\* columns that are present are the ones reported.
missing_inverted(frame) == SelectSeq(<<COL_RECIPIENTS, COL_SUPS, COL_PROPOSAL, COL_LAY>>,
                                     LAMBDA c : c \in {frame.columns[i] : i \in 1..Len(frame.columns)})

required == <<COL_RECIPIENTS, COL_SUPS, COL_PROPOSAL, COL_LAY>>

missing(frame) == SelectSeq(required, LAMBDA c : c \notin Range(frame.columns))

field_options == {"Proposal", "Lay_Summary", "Supervisors"}

default_fields == {"Proposal", "Lay_Summary"}

\* The dict of lines 78-82.
FieldColumn(field) ==
    IF field = "Proposal" THEN COL_PROPOSAL
    ELSE IF field = "Lay_Summary" THEN COL_LAY
    ELSE COL_SUPS

\* Series.astype(str).str.contains(pat, case=False, na=False) for one row:
\* regex=True is the default, so pat is a pattern.  na=False is the answer
\* for a value that is still missing after astype(str).
str_contains(row, col, pat) ==
    LET value == astype_str(row.cells[col])
    IN  IF value.t = "null" THEN FALSE ELSE ReSearch(pat, value.s)

\* A faulty variant of RecipientsFilter: the query is used as typed, without
\* strip(), both in the test and as the pattern.
RecipientsFilter_NoStrip(results, recipient_query) ==
    IF recipient_query = <<>> THEN [raised |-> FALSE, frame |-> results]
    ELSE IF ~ReCompiles(recipient_query) THEN [raised |-> TRUE, frame |-> results]
    ELSE [raised |-> FALSE,
          frame |-> [results EXCEPT !.rows =
              SelectSeq(results.rows,
                        LAMBDA row : str_contains(row, COL_RECIPIENTS, recipient_query))]]

\* Lines 70-72.  raised: re.compile rejected the pattern (re.error).
RecipientsFilter(results, recipient_query) ==
    LET q == Strip(recipient_query)
    IN  IF q = <<>> THEN [raised |-> FALSE, frame |-> results]
        ELSE IF ~ReCompiles(q) THEN [raised |-> TRUE, frame |-> results]
        ELSE [raised |-> FALSE,
              frame |-> [results EXCEPT !.rows =
                  SelectSeq(results.rows,
                            LAMBDA row : str_contains(row, COL_RECIPIENTS, q))]]

\* A faulty variant of any_mask: the masks combined with &= instead of |=.
any_mask_and(row, content_query, selected_fields) ==
    \A field \in selected_fields : str_contains(row, FieldColumn(field), content_query)

\* Lines 84-87: the masks of the selected fields OR-ed together.
any_mask(row, content_query, selected_fields) ==
    \E field \in selected_fields : str_contains(row, FieldColumn(field), content_query)

\* Lines 74-88.
ContentFilter(results, content_query, selected_fields) ==
    IF Strip(content_query) = <<>> \/ selected_fields = {}
    THEN [raised |-> FALSE, frame |-> results]
    ELSE IF ~ReCompiles(content_query) THEN [raised |-> TRUE, frame |-> results]
    ELSE [raised |-> FALSE,
          frame |-> [results EXCEPT !.rows =
              SelectSeq(results.rows,
                        LAMBDA row : any_mask(row, content_query, selected_fields))]]

\* A faulty variant of Filtered: the content masks are taken from, and
\* applied to, the whole DataFrame instead of the recipient-filtered results.
Filtered_ContentOnFrame(frame, recipient_query, content_query, selected_fields) ==
    LET step1 == RecipientsFilter(frame, recipient_query)
    IN  IF step1.raised THEN step1
        ELSE IF Strip(content_query) = <<>> \/ selected_fields = {} THEN step1
        ELSE ContentFilter(frame, content_query, selected_fields)

\* Lines 68-88: the Filtered view of a DataFrame, or the uncaught re.error.
Filtered(frame, recipient_query, content_query, selected_fields) ==
    LET step1 == RecipientsFilter(frame, recipient_query)
    IN  IF step1.raised THEN step1
        ELSE ContentFilter(step1.frame, content_query, selected_fields)

\* ------------------------------------------------- presenter and exporter

front_cols == <<COL_RECIPIENTS, COL_SUPS, COL_PROPOSAL, COL_LAY>>

\* A faulty variant of other_cols: the front columns are not left out.
other_cols_all(results) == results.columns

other_cols(results) == SelectSeq(results.columns, LAMBDA c : c \notin Range(front_cols))

\* results[front_cols + other_cols]: the columns selected by label, in the
\* order of the list.
ordered(results) ==
    LET cols == front_cols \o other_cols(results)
    IN  [columns |-> cols,
         rows |-> [r \in 1..Len(results.rows) |->
                     [label |-> results.rows[r].label,
                      cells |-> [c \in Range(cols) |-> results.rows[r].cells[c]]]]]

\* A faulty variant of CsvField: a missing value written as the text "nan"
\* (na_rep="nan").
CsvField_nan(cell) == IF cell.t = "null" THEN <<"n", "a", "n">> ELSE cell.s

\* One cell as to_csv writes it: a missing value as the empty field
\* (na_rep=""), anything else as its str().
CsvField(cell) == IF cell.t = "null" THEN <<>> ELSE cell.s

\* DataFrame.to_csv(index=False): the header line, then one line per row,
\* the index left out.  Fields, not characters: quoting is not modelled.
to_csv(frame) ==
    [header |-> frame.columns,
     rows |-> [r \in 1..Len(frame.rows) |->
                 [i \in 1..Len(frame.columns) |->
                     CsvField(frame.rows[r].cells[frame.columns[i]])]]]

NoCsv == [header |-> <<>>, rows |-> <<>>]

\* Line 38: the caption lists df.columns[:20].
CaptionColumns == 20

\* ----------------------------------------------------------- one script run

\* What a run leaves on the page.  elements: the kinds of element rendered;
\* frame: df, the Dataset the run worked on; results: the Filtered view.
Page(stage, elements, errors, caption, frame, results, table, download) ==
    [stage |-> stage, elements |-> elements, errors |-> errors, caption |-> caption,
     df |-> frame, results |-> results,
     total |-> Len(frame.rows), matches |-> Len(results.rows),
     table |-> table, download |-> download]

NoPage == Page("none", {}, <<>>, <<>>, EmptyFrame, EmptyFrame, EmptyFrame, NoCsv)

\* Lines 26-115, top to bottom, for the Dataset and load diagnostics that
\* load_data returned and the widget values of this run.
\*   "empty"    st.stop() at line 31: only the title and the loader's errors
\*   "schema"   st.stop() at line 39: the missing-column error and caption
\*   "raised"   an uncaught re.error at line 72 or 83: the sidebar is on the
\*              page, nothing below the filtering logic is
\*   "rendered" the whole page
Render(loaded, recipient_query, content_query, selected_fields) ==
    LET frame == loaded.frame
        got == Filtered(frame, recipient_query, content_query, selected_fields)
    IN  IF IsEmpty(frame)
        THEN Page("empty", {"title"} \cup {"error" : i \in 1..Len(loaded.errors)},
                  loaded.errors, <<>>, frame, EmptyFrame, EmptyFrame, NoCsv)
        ELSE IF missing(frame) # <<>>
        THEN Page("schema", {"title", "error", "caption"},
                  loaded.errors \o
                      <<[kind |-> "Missing expected column(s)", names |-> missing(frame)]>>,
                  SubSeq(frame.columns, 1,
                         IF Len(frame.columns) < CaptionColumns
                         THEN Len(frame.columns) ELSE CaptionColumns),
                  frame, EmptyFrame, EmptyFrame, NoCsv)
        ELSE IF got.raised
        THEN Page("raised", {"title", "sidebar", "exception"},
                  loaded.errors, <<>>, frame, EmptyFrame, EmptyFrame, NoCsv)
        ELSE Page("rendered", {"title", "sidebar", "metrics", "table", "download", "notes"},
                  loaded.errors, <<>>, frame, got.frame,
                  ordered(got.frame), to_csv(ordered(got.frame)))

\* --------------------------------------------------------------- the inputs

\* What the user may type into either text input.
Queries ==
    { <<>>,
      <<" ">>,
      <<"n", "a", "n">>,
      <<".">>,
      <<"(">>,
      <<" ", "n">> }

\* The header of a full file: two columns beside the required four, one
\* before them and one after, under the same name.
FullHeader == <<"Year", "Proposal", "Recipients", "Lay_Summary", "Supervisors", "Year">>

\* The data lines a file may hold, as fields under FullHeader.
RowPool ==
    { << <<"0", "7">>, <<"a", " ", "n">>, <<"N", "a", "n", "a">>, <<>>,
         <<"N", ".">>, <<"7">> >>,
      << <<"a">>, <<"N", ".", "a">>, <<>>, <<"a", "n">>,
         <<>>, <<>> >>,
      << <<>>, <<>>, <<"N", ".">>, <<"N", "a", "n", "a">>,
         <<"a", " ", "n">>, <<".", "7", "0">> >> }

RECURSIVE SeqsUpTo(_, _)
SeqsUpTo(S, n) ==
    IF n = 0 THEN {<<>>}
    ELSE SeqsUpTo(S, n - 1) \cup
         {Append(q, x) : q \in {p \in SeqsUpTo(S, n - 1) : Len(p) = n - 1}, x \in S}

\* The positions of FullHeader a file keeps: all of them, or all but
\* Lay_Summary.
Keeps == {<<1, 2, 3, 4, 5, 6>>, <<1, 2, 3, 5, 6>>}

CsvFile(keep, lines) ==
    [exists |-> TRUE,
     header |-> [i \in 1..Len(keep) |-> FullHeader[keep[i]]],
     rows |-> [r \in 1..Len(lines) |-> [i \in 1..Len(keep) |-> lines[r][keep[i]]]]]

MissingFile == [exists |-> FALSE, header |-> <<>>, rows |-> <<>>]

\* A file of zero bytes.
BlankFile == [exists |-> TRUE, header |-> <<>>, rows |-> <<>>]

Files ==
    {MissingFile, BlankFile} \cup
    {CsvFile(keep, lines) : keep \in Keeps, lines \in SeqsUpTo(RowPool, MaxRows)}

\* What the file may be replaced by while the process runs.
Replacements ==
    {MissingFile, BlankFile} \cup
    {CsvFile(keep, <<line>>) : keep \in Keeps, line \in RowPool}

\* ---------------------------------------------------------------- the state

VARIABLES
    file,             \* the file at CSV_PATH, as it is on disk now
    memo,             \* st.cache_data's table for load_data: path -> result
    recipient_query,  \* the "Recipients contains" text input
    content_query,    \* the "Content keyword" text input
    selected_fields,  \* the "Search keyword in:" multiselect
    page              \* what the last run of the script rendered

vars == <<file, memo, recipient_query, content_query, selected_fields, page,
          astype_keeps_na>>

Init ==
    /\ file \in Files
    /\ memo = <<>>
    /\ recipient_query = <<>>
    /\ content_query = <<>>
    /\ selected_fields = default_fields
    /\ page = NoPage
    /\ astype_keeps_na \in BOOLEAN

\* One run of the script, top to bottom, with the given widget values.
RunScript(rq, cq, sf) ==
    LET call == cached_load_data(memo, file, CSV_PATH)
    IN  /\ memo' = call.memo
        /\ page' = Render(call.ret, rq, cq, sf)
        /\ recipient_query' = rq
        /\ content_query' = cq
        /\ selected_fields' = sf
        /\ UNCHANGED <<file, astype_keeps_na>>

\* The page is opened or reloaded: a run with the widgets as they are.
Rerun == RunScript(recipient_query, content_query, selected_fields)

\* A widget can be changed only when the last run rendered the sidebar.
EditRecipientQuery ==
    /\ "sidebar" \in page.elements
    /\ \E q \in Queries : q # recipient_query /\ RunScript(q, content_query, selected_fields)

EditContentQuery ==
    /\ "sidebar" \in page.elements
    /\ \E q \in Queries : q # content_query /\ RunScript(recipient_query, q, selected_fields)

\* One option of the multiselect added or removed.
ToggleField ==
    /\ "sidebar" \in page.elements
    /\ \E field \in field_options :
          RunScript(recipient_query, content_query,
                    IF field \in selected_fields
                    THEN selected_fields \ {field}
                    ELSE selected_fields \cup {field})

\* The environment replaces, empties or removes the file.  Nothing runs.
WriteFile ==
    /\ \E f \in Replacements : f # file /\ file' = f
    /\ UNCHANGED <<memo, recipient_query, content_query, selected_fields, page,
                   astype_keeps_na>>

Next ==
    \/ Rerun
    \/ EditRecipientQuery
    \/ EditContentQuery
    \/ ToggleField
    \/ WriteFile

Spec == Init /\ [][Next]_vars

\* ------------------------------------------------------ the claims' terms

\* The Dataset of the last run passed loading and schema validation.
Validated == ~IsEmpty(page.df) /\ \A c \in Range(required) : c \in Range(page.df.columns)

\* The last run got as far as the filtering logic.
Filtering == page.stage \in {"rendered", "raised"}

\* A cell's text contains q, case-insensitively and literally.  A missing
\* value has no text; any other value has its textual representation.
CellContains(cell, q) == cell.t # "null" /\ ContainsCI(cell.s, q)

Rows(frame) == Range(frame.rows)

\* ----------------------------------------------------------------- claims

\* C1: for a Dataset that passed loading and validation, and any selection
\* of fields, when both queries are empty or whitespace-only the Filtered
\* view is the Dataset itself: same rows, same order, none removed.
C1_EmptyQueriesIdentity ==
    (page.stage # "none" /\ Validated
        /\ Strip(recipient_query) = <<>> /\ Strip(content_query) = <<>>)
    => (page.stage = "rendered" /\ page.results = page.df)

C1_Witness ==
    /\ page.stage = "rendered"
    /\ recipient_query = <<" ">>
    /\ content_query = <<" ">>
    /\ selected_fields = field_options
    /\ Len(page.df.rows) = 2
    /\ page.results = page.df

\* C2: with a recipient-query q that is non-empty after trimming and no
\* content-query, the recipient filter partitions the Dataset exactly: a row
\* is in the Filtered view iff its Recipients value contains q
\* case-insensitively.
C2_RecipientPartition ==
    (page.stage = "rendered"
        /\ Strip(recipient_query) # <<>> /\ Strip(content_query) = <<>>)
    => \A row \in Rows(page.df) :
          row \in Rows(page.results)
            <=> CellContains(row.cells[COL_RECIPIENTS], Strip(recipient_query))

\* C3: a row whose Recipients cell is null is never retained by an active
\* recipient filter, whatever the query; and a null cell in a selected field
\* never satisfies the content-query predicate, so a row retained by an
\* active content filter has a selected field that is not null.
C3_NullNeverMatches ==
    page.stage = "rendered"
    => /\ Strip(recipient_query) # <<>>
            => \A row \in Rows(page.results) : row.cells[COL_RECIPIENTS].t # "null"
       /\ (Strip(content_query) # <<>> /\ selected_fields # {})
            => \A row \in Rows(page.results) :
                  \E field \in selected_fields : row.cells[FieldColumn(field)].t # "null"

\* C4 as stated: for a fixed Dataset, recipient-query and non-empty
\* content-query, every row of Filtered(S1) is in Filtered(S2) for all
\* S1 subset-of S2, S1 the empty selection included.  (Stated here for the
\* S2 whose run produces a Filtered view at all.)
C4_MonotoneFromEmpty ==
    (page.stage = "rendered" /\ Strip(content_query) # <<>>)
    => \A S2 \in SUBSET field_options :
          selected_fields \subseteq S2
            => LET wider == Filtered(page.df, recipient_query, content_query, S2)
               IN  ~wider.raised => Rows(page.results) \subseteq Rows(wider.frame)

\* C4, amended: the same for every non-empty S1 subset-of S2; the run with
\* S2 then produces a Filtered view too.
C4_MonotoneNonEmpty ==
    (page.stage = "rendered" /\ Strip(content_query) # <<>> /\ selected_fields # {})
    => \A S2 \in SUBSET field_options :
          selected_fields \subseteq S2
            => LET wider == Filtered(page.df, recipient_query, content_query, S2)
               IN  ~wider.raised /\ Rows(page.results) \subseteq Rows(wider.frame)

\* A selection of one field that drops a row which a wider selection keeps.
C4_Witness ==
    /\ page.stage = "rendered"
    /\ Strip(content_query) # <<>>
    /\ selected_fields = {"Proposal"}
    /\ page.results.rows # <<>>
    /\ \E row \in Rows(page.df) :
          /\ row \notin Rows(page.results)
          /\ row \in Rows(Filtered(page.df, recipient_query, content_query,
                                   {"Proposal", "Supervisors"}).frame)

\* The row passes the recipient filter, if that filter is active.
PassesRecipient(row) ==
    Strip(recipient_query) # <<>>
        => str_contains(row, COL_RECIPIENTS, Strip(recipient_query))

\* The row passes the content filter, if that filter is active.
PassesContent(row) ==
    (Strip(content_query) # <<>> /\ selected_fields # {})
        => \E field \in selected_fields :
              str_contains(row, FieldColumn(field), content_query)

\* C5: filtering in one pass with both queries gives the same rows in the
\* same order as filtering by the recipient-query alone (no content query,
\* no fields) and then filtering that result by the content-query alone
\* over the same fields; a row is in the result iff it passes both active
\* filters.  One fails exactly when the other does.
C5_AndComposition ==
    Filtering
    => LET first == Filtered(page.df, recipient_query, <<>>, {})
           twice == IF first.raised THEN first
                    ELSE Filtered(first.frame, <<>>, content_query, selected_fields)
       IN  /\ twice.raised <=> page.stage = "raised"
           /\ page.stage = "rendered"
                => /\ page.results = twice.frame
                   /\ \A row \in Rows(page.df) :
                         row \in Rows(page.results)
                           <=> PassesRecipient(row) /\ PassesContent(row)

\* Both filters active, each dropping a row the other keeps.
C5_Witness ==
    /\ page.stage = "rendered"
    /\ Strip(recipient_query) # <<>>
    /\ Strip(content_query) # <<>>
    /\ selected_fields # {}
    /\ Len(page.results.rows) < Len(page.df.rows)
    /\ \E row \in Rows(page.df) : PassesRecipient(row) /\ ~PassesContent(row)
    /\ \E row \in Rows(page.df) : ~PassesRecipient(row) /\ PassesContent(row)

\* The required columns a DataFrame does not have.
Lacking(frame) == {c \in Range(required) : c \notin Range(frame.columns)}

\* The run halted with a diagnostic that names each missing column.
SchemaErrorShown ==
    /\ page.stage = "schema"
    /\ \E i \in 1..Len(page.errors) :
          /\ page.errors[i].kind = "Missing expected column(s)"
          /\ Range(page.errors[i].names) = Lacking(page.df)

NothingProduced == page.elements \cap {"metrics", "table", "download"} = {}

\* C6 as stated: for every loaded dataset that lacks a required column, a
\* dataset with a header row but zero data rows included, the run halts with
\* a diagnostic naming each missing column, and no table, counts or download
\* are produced.
C6_SchemaErrorAlways ==
    (page.stage # "none" /\ page.df.columns # <<>> /\ Lacking(page.df) # {})
    => (SchemaErrorShown /\ NothingProduced)

\* C6, amended: for every loaded dataset with at least one data row that
\* lacks a required column the run halts with a diagnostic naming each
\* missing column; with a header row and zero data rows it halts before
\* validation, with no diagnostic; in both cases no table, counts or
\* download are produced.
C6_SchemaErrorWithRows ==
    (page.stage # "none" /\ page.df.columns # <<>> /\ Lacking(page.df) # {})
    => /\ NothingProduced
       /\ page.df.rows # <<>> => SchemaErrorShown
       /\ page.df.rows = <<>> => (page.stage = "empty" /\ page.errors = <<>>)

C6_Witness ==
    /\ page.stage = "schema"
    /\ Lacking(page.df) = {COL_LAY}
    /\ Len(page.df.rows) = 2
    /\ page.caption = page.df.columns

\* C7: across runs over the same path, a run after the file changed (or
\* after a missing or unparseable file was fixed) works on a Dataset parsed
\* from the file as it is at that run, never on the Dataset or the empty
\* Dataset memoised by an earlier load.  Every step that leaves the file
\* alone is a run of the script.
C7_ReloadOnChange ==
    [][file' = file => page'.df = load_data(file, CSV_PATH).frame]_vars

\* C8: the table's columns are a permutation of the Dataset's columns, the
\* four required ones first in the fixed order, then every other column in
\* its original relative order, none dropped or duplicated; the table's
\* rows are the Filtered view's rows, in order, all of them.
C8_TableColumnsAndRows ==
    page.stage = "rendered"
    => LET cols == page.table.columns
           orig == page.df.columns
           at(c) == CHOOSE i \in 1..Len(orig) : orig[i] = c
       IN  /\ Len(cols) = Len(orig)
           /\ Range(cols) = Range(orig)
           /\ SubSeq(cols, 1, 4) =
                <<"Recipients", "Supervisors", "Proposal", "Lay_Summary">>
           /\ \A i, j \in 5..Len(cols) : i < j => at(cols[i]) < at(cols[j])
           /\ Len(page.table.rows) = Len(page.results.rows)
           /\ page.matches = Len(page.table.rows)
           /\ \A r \in 1..Len(page.table.rows) :
                 /\ page.table.rows[r].label = page.results.rows[r].label
                 /\ \A c \in Range(orig) :
                       page.table.rows[r].cells[c] = page.results.rows[r].cells[c]

\* A table of two rows with a column on either side of the required four.
C8_Witness ==
    /\ page.stage = "rendered"
    /\ Len(page.table.rows) = 2
    /\ Len(page.df.rows) = 2
    /\ page.df.columns[1] \notin Range(required)
    /\ page.table.columns[5] = page.df.columns[1]
    /\ Len(page.table.columns) = 6

\* The download of the last run as a file on disk.
Exported == [exists |-> TRUE, header |-> page.download.header, rows |-> page.download.rows]

\* Two cells hold the same value: both missing, or the same text.
SameValue(a, b) == (a.t = "null") = (b.t = "null") /\ a.s = b.s

C10_LiteralContentMatch ==
    LET passed == RecipientsFilter(page.df, recipient_query)
    IN  (Filtering /\ ~passed.raised
            /\ Strip(content_query) # <<>> /\ selected_fields # {})
        => /\ page.stage = "rendered"
           /\ \A row \in Rows(passed.frame) :
                 row \in Rows(page.results)
                   <=> \E field \in selected_fields :
                          CellContains(row.cells[FieldColumn(field)], content_query)

=============================================================================
